---- MODULE Spec2Model ----
(***************************************************************************)
(* Symptom_Tracker: the symptom submission flow (Symptoms page,            *)
(* handleSubmit), the analyze-symptoms edge function and the tables the    *)
(* flow writes (symptom_entries, risk_assessments) with their row-level    *)
(* insert policies and constraints.                                        *)
(*                                                                         *)
(* JSON text is a sequence of lexical tokens: "{", "}", a piece of prose,  *)
(* or one member ("key": value with a scalar or array value, separators    *)
(* included).  An object nested in an object is an element of its          *)
(* "conditions" array (the only nesting the assessment shape has).         *)
(***************************************************************************)
EXTENDS Integers, Sequences, FiniteSets, TLC

VARIABLES
    \* ---- analyze-symptoms edge function (one request at a time) ----
    apiKeySet,        \* Deno.env.get('LOVABLE_API_KEY') is a non-empty string
    httpRequest,      \* the request the function is serving
    svcPc,            \* "idle" | "received" | "fetching" | "responded"
    upstreamCalls,    \* fetch() calls issued to the AI gateway for httpRequest
    upstreamReply,    \* what that fetch() produced
    httpResponse,     \* the Response the function returned
    \* ---- Symptoms page (one mounted component) ----
    selectedSymptoms, \* useState<string[]>
    notes,            \* useState("")
    loading,          \* useState(false)
    analysisResult,   \* useState<any>(null)
    run,              \* the handleSubmit call in progress (or the last one)
    \* ---- database ----
    symptom_entries,  \* set of rows
    risk_assessments, \* set of rows
    nextId,           \* gen_random_uuid(): the next fresh id
    profiles,         \* profiles.role of each auth.users row
    lastOp,           \* the last request a client made to the database directly
    \* ---- Dashboard page (one mounted component) ----
    symptomEntries,   \* useState<SymptomEntry[]>
    riskAssessments,  \* useState<RiskAssessment[]>
    csvContent        \* the text exportData last put in the downloaded file

svcVars  == <<apiKeySet, httpRequest, svcPc, upstreamCalls, upstreamReply, httpResponse>>
pageVars == <<selectedSymptoms, notes, loading, analysisResult, run>>
dbVars   == <<symptom_entries, risk_assessments, nextId>>
aclVars  == <<profiles, lastOp>>
dashVars == <<symptomEntries, riskAssessments, csvContent>>
vars     == <<svcVars, pageVars, dbVars, aclVars, dashVars>>

-----------------------------------------------------------------------------
(* Bounds *)

\* longest upstream reply enumerated token by token
MaxRawLen == 3
\* most conditions in an upstream assessment object
MaxConds == 4
\* most symptom_entries rows created
MaxEntries == 1

-----------------------------------------------------------------------------
(* JSON text *)

LBrace == [tok |-> "{"]
RBrace == [tok |-> "}"]
Prose  == [tok |-> "text"]
Member(k, v) == [key |-> k, value |-> v]

IsMember(t) == "key" \in DOMAIN t

\* the JavaScript object with no own keys
EmptyObject == [k \in {} |-> 0]

Count(s, t, i) == Cardinality({j \in 1..i : s[j] = t})

\* nesting depth after token i
Depth(s, i) == Count(s, LBrace, i) - Count(s, RBrace, i)

Min(S) == CHOOSE x \in S : \A y \in S : x <= y
Max(S) == CHOOSE x \in S : \A y \in S : x >= y

RECURSIVE SortedSeq(_)
SortedSeq(S) == IF S = {} THEN <<>> ELSE <<Min(S)>> \o SortedSeq(S \ {Min(S)})

\* JSON.parse accepts s (s starts with "{": it is given the regex match or a
\* body): one object, braces balanced, no prose between the members
IsJSONText(s) ==
    /\ Len(s) >= 2
    /\ s[1] = LBrace
    /\ \A i \in 1..Len(s) : s[i] # Prose
    /\ \A i \in 1..(Len(s) - 1) : Depth(s, i) >= 1
    /\ Depth(s, Len(s)) = 0

\* JSON.parse(s) for an accepted s: the members at depth 1 (a repeated key:
\* the last one wins) and the nested objects as "conditions"
RECURSIVE JSONParse(_)
JSONParse(s) ==
    LET top    == {i \in 1..Len(s) : IsMember(s[i]) /\ Depth(s, i) = 1}
        keys   == {s[i].key : i \in top}
        starts == SortedSeq({i \in 1..Len(s) : s[i] = LBrace /\ Depth(s, i) = 2})
        close(i) == Min({j \in (i + 1)..Len(s) : s[j] = RBrace /\ Depth(s, j) = 1})
        conds  == [n \in 1..Len(starts) |->
                     JSONParse(SubSeq(s, starts[n], close(starts[n])))]
        last(k) == Max({i \in top : s[i].key = k})
    IN  [k \in keys \cup (IF Len(starts) > 0 THEN {"conditions"} ELSE {}) |->
            IF k = "conditions" THEN conds ELSE s[last(k)].value]

KeyOrder == <<"error", "symptoms", "name", "probability", "explanation",
              "conditions", "riskLevel", "recommendations", "disclaimer">>

RECURSIVE Concat(_)
Concat(ss) == IF ss = <<>> THEN <<>> ELSE Head(ss) \o Concat(Tail(ss))

\* JSON.stringify(o)
RECURSIVE JSONStringify(_)
JSONStringify(o) ==
    LET part(k) == IF k \notin DOMAIN o THEN <<>>
                   ELSE IF k = "conditions"
                        THEN Concat([n \in 1..Len(o[k]) |-> JSONStringify(o[k][n])])
                        ELSE <<Member(k, o[k])>>
    IN  <<LBrace>> \o Concat([n \in 1..Len(KeyOrder) |-> part(KeyOrder[n])]) \o <<RBrace>>

\* aiResponse.match(/\{[\s\S]*\}/): greedy, from the first "{" to the last "}"
HasMatch(s) ==
    \E i, j \in 1..Len(s) : i < j /\ s[i] = LBrace /\ s[j] = RBrace

RegexMatch(s) ==
    SubSeq(s, Min({i \in 1..Len(s) : s[i] = LBrace}),
              Max({j \in 1..Len(s) : s[j] = RBrace}))

-----------------------------------------------------------------------------
(* analyze-symptoms edge function *)

NoRequest  == [method |-> "NONE", body |-> <<>>]
NoResponse == [status |-> 0, body |-> <<>>]
NoReply    == [kind |-> "none"]

Response(status, body) == [status |-> status, body |-> body]

\* new Response(JSON.stringify({ error: ... }), { status: 500, ... })
CatchAll(message) == Response(500, JSONStringify([error |-> message]))

ConfigMessage == "LOVABLE_API_KEY is not configured"

GatewayErrorMessage(status) ==
    CASE status = 401 -> "AI gateway error: 401"
      [] status = 402 -> "AI gateway error: 402"
      [] status = 429 -> "AI gateway error: 429"
      [] status = 500 -> "AI gateway error: 500"
      [] OTHER        -> "AI gateway error"

\* response.ok
Ok(status) == status \in 200..299

\* BeforeFetch with the credential check lost
BeforeFetch_NoKeyCheck(req, keySet) ==
    IF req.method = "OPTIONS"
    THEN [fetch |-> FALSE, response |-> Response(200, <<>>)]
    ELSE IF ~IsJSONText(req.body)
    THEN [fetch |-> FALSE, response |-> CatchAll("Unexpected token in JSON")]
    ELSE IF "symptoms" \notin DOMAIN JSONParse(req.body)
    THEN [fetch |-> FALSE,
          response |-> CatchAll("Cannot read properties of undefined (reading 'join')")]
    ELSE [fetch |-> TRUE, response |-> NoResponse]

\* the function up to the fetch() call: the response it returns without
\* calling the gateway, or fetch = TRUE
BeforeFetch(req, keySet) ==
    IF req.method = "OPTIONS"
    THEN [fetch |-> FALSE, response |-> Response(200, <<>>)]
    ELSE IF ~IsJSONText(req.body)
    THEN [fetch |-> FALSE, response |-> CatchAll("Unexpected token in JSON")]
    ELSE IF ~keySet
    THEN [fetch |-> FALSE, response |-> CatchAll(ConfigMessage)]
    ELSE IF "symptoms" \notin DOMAIN JSONParse(req.body)
    THEN [fetch |-> FALSE,
          response |-> CatchAll("Cannot read properties of undefined (reading 'join')")]
    ELSE [fetch |-> TRUE, response |-> NoResponse]

\* UpstreamErrorResponse with every non-ok status thrown to the catch-all
UpstreamErrorResponse_Always500(status) == CatchAll(GatewayErrorMessage(status))

\* the branch of a non-ok gateway status
UpstreamErrorResponse(status) ==
    IF status = 429
    THEN Response(429, JSONStringify(
             [error |-> "Rate limit exceeded. Please try again later."]))
    ELSE IF status = 402
    THEN Response(402, JSONStringify(
             [error |-> "AI credits exhausted. Please add credits to continue."]))
    ELSE CatchAll(GatewayErrorMessage(status))

FallbackAnalysis ==
    [conditions |-> <<[name |-> "Multiple Symptoms",
                       probability |-> 60,
                       explanation |-> "Based on the symptoms provided, we recommend consulting a healthcare professional for proper evaluation."]>>,
     riskLevel |-> "medium",
     recommendations |-> <<"Consult a healthcare professional",
                           "Monitor your symptoms",
                           "Stay hydrated and rest">>,
     disclaimer |-> "This is not a medical diagnosis. Please consult a healthcare professional for proper evaluation."]

\* ParseAnalysis that reports a span JSON.parse rejects instead of falling back
ParseAnalysis_ParseUncaught(reply) ==
    IF reply.envelope = "null_content" THEN FallbackAnalysis
    ELSE IF ~HasMatch(reply.content) THEN FallbackAnalysis
    ELSE IF ~IsJSONText(RegexMatch(reply.content)) THEN [error |-> "Unexpected token in JSON"]
    ELSE JSONParse(RegexMatch(reply.content))

\* the inner try/catch: the parsed match, or the fallback
ParseAnalysis(reply) ==
    IF reply.envelope = "null_content" THEN FallbackAnalysis
    ELSE IF ~HasMatch(reply.content) THEN FallbackAnalysis
    ELSE IF ~IsJSONText(RegexMatch(reply.content)) THEN FallbackAnalysis
    ELSE JSONParse(RegexMatch(reply.content))

\* the function after fetch() settled
AfterFetch(reply) ==
    IF reply.kind = "throw" THEN CatchAll("error sending request")
    ELSE IF ~Ok(reply.status) THEN UpstreamErrorResponse(reply.status)
    ELSE IF reply.envelope = "no_choices"
    THEN CatchAll("Cannot read properties of undefined (reading '0')")
    ELSE Response(200, JSONStringify(ParseAnalysis(reply)))

SvcReceive ==
    /\ svcPc = "received"
    /\ LET r == BeforeFetch(httpRequest, apiKeySet)
       IN  IF r.fetch
           THEN /\ svcPc' = "fetching"
                /\ upstreamCalls' = upstreamCalls + 1
                /\ UNCHANGED httpResponse
           ELSE /\ svcPc' = "responded"
                /\ httpResponse' = r.response
                /\ UNCHANGED upstreamCalls
    /\ UNCHANGED <<apiKeySet, httpRequest, upstreamReply, pageVars, dbVars, aclVars, dashVars>>

SvcUpstreamReturn(Replies) ==
    /\ svcPc = "fetching"
    /\ \E u \in Replies :
         /\ upstreamReply' = u
         /\ httpResponse' = AfterFetch(u)
    /\ svcPc' = "responded"
    /\ UNCHANGED <<apiKeySet, httpRequest, upstreamCalls, pageVars, dbVars, aclVars, dashVars>>

-----------------------------------------------------------------------------
(* Inputs of the edge function *)

RECURSIVE SeqsUpTo(_, _)
SeqsUpTo(S, n) ==
    IF n = 0 THEN {<<>>}
    ELSE LET shorter == SeqsUpTo(S, n - 1)
         IN  shorter \cup {Append(s, x) : s \in shorter, x \in S}

RiskInputs == {"low", "medium", "high", "critical"}
ProbInputs == {60, 101}

RawAlphabet ==
    {LBrace, RBrace, Prose, Member("riskLevel", "low"), Member("probability", 101)}

UpstreamObject(rl, ps) ==
    (IF rl = "absent" THEN EmptyObject ELSE [riskLevel |-> rl])
    @@ (IF ps = <<>> THEN EmptyObject
        ELSE [conditions |-> [n \in 1..Len(ps) |-> [probability |-> ps[n]]]])

UpstreamObjects ==
    {UpstreamObject(rl, ps) : rl \in RiskInputs \cup {"absent"},
                              ps \in SeqsUpTo(ProbInputs, MaxConds)}

Prefixes == {<<>>, <<Prose>>, <<LBrace, Prose, RBrace>>}
Suffixes == {<<>>, <<Prose>>, <<Prose, RBrace>>, <<Prose, LBrace, Prose, RBrace>>}

TextReply(content) ==
    [kind |-> "http", status |-> 200, envelope |-> "text", content |-> content]

FailedReplies ==
    {[kind |-> "throw"]}
    \cup {[kind |-> "http", status |-> st, envelope |-> "text", content |-> <<>>] :
             st \in {401, 402, 429, 500}}
    \cup {[kind |-> "http", status |-> 200, envelope |-> e, content |-> <<>>] :
             e \in {"no_choices", "null_content"}}

AllReplies ==
    FailedReplies
    \cup {TextReply(c) : c \in SeqsUpTo(RawAlphabet, MaxRawLen)}
    \cup {TextReply(pre \o JSONStringify(o) \o suf) :
             pre \in Prefixes, o \in UpstreamObjects, suf \in Suffixes}

RequestBodies ==
    {<<Prose>>, JSONStringify(EmptyObject)}
    \cup {JSONStringify([symptoms |-> ss]) :
             ss \in {<<>>, <<"Fever">>, <<"Fever", "Cough">>}}

\* any client of the function sends a request
ClientSend ==
    /\ svcPc \in {"idle", "responded"}
    /\ \E m \in {"OPTIONS", "POST"}, b \in RequestBodies :
         httpRequest' = [method |-> m, body |-> b]
    /\ svcPc' = "received"
    /\ upstreamCalls' = 0
    /\ upstreamReply' = NoReply
    /\ httpResponse' = NoResponse
    /\ UNCHANGED <<apiKeySet, pageVars, dbVars, aclVars, dashVars>>

-----------------------------------------------------------------------------
(* Database: tables, constraints and row-level policies *)

RiskLevels == {"low", "medium", "high"}

\* "Users can insert own symptom entries": WITH CHECK (auth.uid() = user_id)
EntryInsertPolicy(uid, row) == uid = row.user_id

\* "Users can insert own risk assessments": WITH CHECK (auth.uid() = user_id)
AssessmentInsertPolicy(uid, row) == uid = row.user_id

\* risk_assessments: the CHECK on risk_level and the symptom_entry_id reference
AssessmentConstraints(row, entries) ==
    /\ row.risk_level \in RiskLevels
    /\ \E e \in entries : e.id = row.symptom_entry_id

-----------------------------------------------------------------------------
(* Symptoms page *)

Users  == {"u1", "u2"}
NoUser == "nobody"

COMMON_SYMPTOMS == {"Fever", "Cough"}
NotesInputs == {"", "worse at night"}

Null    == [null |-> TRUE]
NoRow   == [id |-> 0]
NoError == "no error"
\* error.message of a failed insert
InsertErrors == {"new row violates row-level security policy", ""}

Toast(level, text) == [level |-> level, text |-> text]

IdleRun ==
    [pc |-> "idle", user |-> NoUser, symptoms |-> <<>>, notes |-> "",
     symptomEntry |-> NoRow, symptomError |-> NoError,
     invokeStatus |-> 0, analysis |-> Null, analysisError |-> FALSE,
     assessmentError |-> NoError,
     createdEntries |-> {}, invoked |-> 0, createdAssessments |-> {},
     toasts |-> <<>>, logs |-> <<>>, navigated |-> "", result |-> "none"]

\* prev.includes(symptom) ? prev.filter(s => s !== symptom) : [...prev, symptom]
ToggleSymptom(prev, symptom) ==
    IF \E i \in 1..Len(prev) : prev[i] = symptom
    THEN SelectSeq(prev, LAMBDA x : x # symptom)
    ELSE Append(prev, symptom)

toggleSymptom ==
    /\ analysisResult = Null
    /\ \E symptom \in COMMON_SYMPTOMS :
         selectedSymptoms' = ToggleSymptom(selectedSymptoms, symptom)
    /\ UNCHANGED <<notes, loading, analysisResult, run, svcVars, dbVars, aclVars, dashVars>>

setNotes ==
    /\ analysisResult = Null
    /\ \E n \in NotesInputs : n # notes /\ notes' = n
    /\ UNCHANGED <<selectedSymptoms, loading, analysisResult, run, svcVars, dbVars, aclVars, dashVars>>

resetForm ==
    /\ analysisResult # Null
    /\ selectedSymptoms' = <<>>
    /\ notes' = ""
    /\ analysisResult' = Null
    /\ UNCHANGED <<loading, run, svcVars, dbVars, aclVars, dashVars>>

\* SelectionEmpty with the validation lost
SelectionEmpty_Never(selected) == FALSE

\* selectedSymptoms.length === 0
SelectionEmpty(selected) == Len(selected) = 0

\* handleSubmit up to the first await (the submit button is disabled while
\* loading and the form is shown only while there is no result)
Submit ==
    /\ run.pc = "idle"
    /\ ~loading
    /\ analysisResult = Null
    /\ IF SelectionEmpty(selectedSymptoms)
       THEN /\ run' = [IdleRun EXCEPT
                         !.toasts = <<Toast("error", "Please select at least one symptom")>>,
                         !.result = "validation"]
            /\ UNCHANGED loading
       ELSE /\ Cardinality(symptom_entries) < MaxEntries
            /\ loading' = TRUE
            /\ run' = [IdleRun EXCEPT !.pc = "getUser",
                                      !.symptoms = selectedSymptoms,
                                      !.notes = notes]
    /\ UNCHANGED <<selectedSymptoms, notes, analysisResult, svcVars, dbVars, aclVars, dashVars>>

\* !user
NotAuthenticated(user) == user = NoUser

\* supabase.auth.getUser() settled; navigate("/auth") leaves the page, which
\* is mounted anew when the user comes back
GetUserReturn ==
    /\ run.pc = "getUser"
    /\ \E user \in Users \cup {NoUser} :
         IF NotAuthenticated(user)
         THEN /\ run' = [run EXCEPT !.pc = "idle", !.navigated = "/auth",
                                    !.result = "no user"]
              /\ selectedSymptoms' = <<>>
              /\ notes' = ""
              /\ loading' = FALSE
         ELSE /\ run' = [run EXCEPT !.pc = "insertEntry", !.user = user]
              /\ UNCHANGED <<selectedSymptoms, notes, loading>>
    /\ UNCHANGED <<analysisResult, svcVars, dbVars, aclVars, dashVars>>

\* notes || null
NotesOrNull(n) == IF n = "" THEN "NULL" ELSE n

\* NewSymptomEntry storing the selection back to front
NewSymptomEntry_Reversed(id, user, symptoms, n) ==
    [id |-> id, user_id |-> user,
     symptoms |-> [i \in 1..Len(symptoms) |-> symptoms[Len(symptoms) + 1 - i]],
     notes |-> NotesOrNull(n)]

\* the row of .insert({ user_id, symptoms, notes })
NewSymptomEntry(id, user, symptoms, n) ==
    [id |-> id, user_id |-> user, symptoms |-> symptoms, notes |-> NotesOrNull(n)]

\* SymptomErrorThrown with the throw lost
SymptomErrorThrown_Never(symptomError) == FALSE

\* if (symptomError) throw symptomError
SymptomErrorThrown(symptomError) == symptomError # NoError

\* error.message || "Failed to log symptoms"
SubmitErrorText(message) == IF message = "" THEN "Failed to log symptoms" ELSE message

\* the symptom_entries insert settled: on success handleSubmit goes on to
\* call supabase.functions.invoke('analyze-symptoms', { body: { symptoms } })
InsertEntryReturn ==
    /\ run.pc = "insertEntry"
    /\ \E failure \in InsertErrors \cup {NoError} :
         LET row == NewSymptomEntry(nextId, run.user, run.symptoms, run.notes)
             symptomError ==
                 IF ~EntryInsertPolicy(run.user, row)
                 THEN "new row violates row-level security policy"
                 ELSE failure
             inserted == symptomError = NoError
         IN  /\ symptom_entries' = IF inserted THEN symptom_entries \cup {row}
                                   ELSE symptom_entries
             /\ nextId' = IF inserted THEN nextId + 1 ELSE nextId
             /\ IF SymptomErrorThrown(symptomError)
                THEN /\ run' = [run EXCEPT
                                  !.pc = "idle",
                                  !.symptomError = symptomError,
                                  !.logs = Append(@, "Submit error:"),
                                  !.toasts = Append(@, Toast("error", SubmitErrorText(symptomError))),
                                  !.result = "failed"]
                     /\ loading' = FALSE
                     /\ UNCHANGED svcVars
                ELSE /\ run' = [run EXCEPT
                                  !.pc = "invoke",
                                  !.symptomError = symptomError,
                                  !.symptomEntry = IF inserted THEN row ELSE NoRow,
                                  !.createdEntries = IF inserted THEN @ \cup {row.id} ELSE @,
                                  !.invoked = @ + 1]
                     /\ httpRequest' = [method |-> "POST",
                                        body |-> JSONStringify([symptoms |-> run.symptoms])]
                     /\ svcPc' = "received"
                     /\ upstreamCalls' = 0
                     /\ upstreamReply' = NoReply
                     /\ httpResponse' = NoResponse
                     /\ UNCHANGED <<apiKeySet, loading>>
    /\ UNCHANGED <<selectedSymptoms, notes, analysisResult, risk_assessments, aclVars, dashVars>>

\* analysis.riskLevel || 'medium'
RiskLevelOrMedium(analysis) ==
    IF "riskLevel" \in DOMAIN analysis THEN analysis.riskLevel ELSE "medium"

\* the row of the risk_assessments insert
NewRiskAssessment(id, symptomEntry, user, analysis) ==
    [id |-> id, symptom_entry_id |-> symptomEntry.id, user_id |-> user,
     predictions |-> analysis, risk_level |-> RiskLevelOrMedium(analysis)]

\* InvokeFailed that takes the body of a non-2xx response for data
InvokeFailed_TransportOnly(transportFailed, status) == transportFailed

\* functions.invoke: error for a failed transport or a non-2xx response
InvokeFailed(transportFailed, status) == transportFailed \/ ~Ok(status)

\* functions.invoke settled: { data, error }, data = the parsed body (a failed
\* transport loses the function's response); the request is over and the
\* function is ready for the next one
InvokeReturn ==
    /\ run.pc = "invoke"
    /\ svcPc = "responded"
    /\ \E transportFailed \in BOOLEAN :
         LET status == IF transportFailed THEN 0 ELSE httpResponse.status
             analysisError == InvokeFailed(transportFailed, httpResponse.status)
             analysis == IF analysisError \/ ~IsJSONText(httpResponse.body) THEN Null
                         ELSE JSONParse(httpResponse.body)
         IN  IF analysisError
             THEN /\ run' = [run EXCEPT
                               !.pc = "idle",
                               !.invokeStatus = status,
                               !.analysisError = TRUE,
                               !.logs = Append(@, "Analysis error:"),
                               !.toasts = @ \o <<Toast("error", "Failed to get AI analysis"),
                                                 Toast("success", "Symptoms logged successfully!")>>,
                               !.result = "logged"]
                  /\ loading' = FALSE
             ELSE IF analysis = Null
             THEN /\ run' = [run EXCEPT
                               !.pc = "idle",
                               !.invokeStatus = status,
                               !.toasts = Append(@, Toast("success", "Symptoms logged successfully!")),
                               !.result = "logged"]
                  /\ loading' = FALSE
             ELSE /\ run' = [run EXCEPT !.pc = "insertAssessment",
                                         !.invokeStatus = status,
                                         !.analysis = analysis]
                  /\ UNCHANGED loading
    /\ httpRequest' = NoRequest
    /\ svcPc' = "idle"
    /\ upstreamCalls' = 0
    /\ upstreamReply' = NoReply
    /\ httpResponse' = NoResponse
    /\ UNCHANGED <<selectedSymptoms, notes, analysisResult, apiKeySet, dbVars, aclVars, dashVars>>

\* AssessmentErrorThrown with the error thrown as the entry's is
AssessmentErrorThrown_Always(assessmentError) == assessmentError # NoError

\* if (assessmentError) { console.error(...) }: logged, not thrown
AssessmentErrorThrown(assessmentError) == FALSE

\* the risk_assessments insert settled; then setAnalysisResult, toast.success
InsertAssessmentReturn ==
    /\ run.pc = "insertAssessment"
    /\ \E failure \in InsertErrors \cup {NoError} :
         LET row == NewRiskAssessment(nextId, run.symptomEntry, run.user, run.analysis)
             assessmentError ==
                 IF ~AssessmentInsertPolicy(run.user, row)
                 THEN "new row violates row-level security policy"
                 ELSE IF ~AssessmentConstraints(row, symptom_entries)
                 THEN "new row violates a constraint"
                 ELSE failure
             inserted == assessmentError = NoError
             logged == IF inserted THEN run.logs ELSE Append(run.logs, "Assessment error:")
         IN  /\ risk_assessments' = IF inserted THEN risk_assessments \cup {row}
                                    ELSE risk_assessments
             /\ nextId' = IF inserted THEN nextId + 1 ELSE nextId
             /\ IF AssessmentErrorThrown(assessmentError) /\ ~inserted
                THEN /\ run' = [run EXCEPT
                                  !.pc = "idle",
                                  !.assessmentError = assessmentError,
                                  !.logs = Append(logged, "Submit error:"),
                                  !.toasts = Append(@, Toast("error", SubmitErrorText(assessmentError))),
                                  !.result = "failed"]
                     /\ UNCHANGED analysisResult
                ELSE /\ run' = [run EXCEPT
                                  !.pc = "idle",
                                  !.assessmentError = assessmentError,
                                  !.createdAssessments = IF inserted THEN @ \cup {row.id} ELSE @,
                                  !.logs = logged,
                                  !.toasts = Append(@, Toast("success", "Symptoms logged successfully!")),
                                  !.result = "logged"]
                     /\ analysisResult' = run.analysis
    /\ loading' = FALSE
    /\ UNCHANGED <<selectedSymptoms, notes, symptom_entries, svcVars, aclVars, dashVars>>

-----------------------------------------------------------------------------
(* Row-level security and direct requests to the database *)

\* most ids gen_random_uuid() hands out to directly inserted rows
MaxIds == 2
\* most rows a table holds at once
MaxRows == 2

Roles == {"patient", "admin"}

\* handle_new_user(): every account gets a profile with role 'patient'
SignedUpProfiles == [u \in Users |-> "patient"]

\* EXISTS (SELECT 1 FROM public.profiles WHERE id = auth.uid() AND role = 'admin')
IsAdmin_AnyProfile(uid, profs) == \E id \in DOMAIN profs : profs[id] = "admin"

IsAdmin(uid, profs) == \E id \in DOMAIN profs : id = uid /\ profs[id] = "admin"

\* "Users can update own profile": USING (auth.uid() = id); with no WITH CHECK
\* the same expression is applied to the row as updated
ProfileUpdatePolicy(uid, id) == uid = id

\* profiles: CHECK (role IN ('patient', 'admin'))
ProfileConstraints(role) == role \in Roles

\* the two permissive SELECT policies of symptom_entries, either of which admits
\* a row: "Users can view own symptom entries", "Admins can view all symptom entries"
EntrySelectPolicy(uid, row, profs) == uid = row.user_id \/ IsAdmin(uid, profs)

\* "Users can update own symptom entries": USING (auth.uid() = user_id), applied
\* to the row as stored and, with no WITH CHECK, to the row as updated
EntryUpdatePolicy(uid, row) == uid = row.user_id

\* "Users can delete own symptom entries": USING (auth.uid() = user_id)
EntryDeletePolicy(uid, row) == uid = row.user_id

\* the two permissive SELECT policies of risk_assessments
AssessmentSelectPolicy(uid, row, profs) == uid = row.user_id \/ IsAdmin(uid, profs)

\* risk_assessments has row-level security enabled and no UPDATE policy
AssessmentUpdatePolicy(uid, row) == FALSE

\* risk_assessments has row-level security enabled and no DELETE policy
AssessmentDeletePolicy(uid, row) == FALSE

\* symptom_entry_id ... REFERENCES symptom_entries(id) ON DELETE CASCADE
CascadeDelete_None(assessments, deleted) == assessments

CascadeDelete(assessments, deleted) ==
    {a \in assessments : \A e \in deleted : a.symptom_entry_id # e.id}

\* the reference has no ON UPDATE action: the id of a referenced entry stays
EntryIdReferenced(id, assessments) == \E a \in assessments : a.symptom_entry_id = id

\* a request: who made it, the rows it returned or wrote, and the rows of other
\* tables removed with them
NoOp ==
    [op |-> "none", table |-> "none", uid |-> NoUser, count |-> 0, rows |-> {},
     cascaded |-> {}]
Op(op, table, uid, rows) ==
    [op |-> op, table |-> table, uid |-> uid, count |-> Cardinality(rows),
     rows |-> rows, cascaded |-> {}]

\* values a client can put in a directly written row
DbSymptoms == {<<"Fever">>, <<"Cough">>}
DbRiskInputs == {"low", "critical"}
DbRoleInputs == Roles \cup {"doctor"}

\* supabase.from("symptom_entries").select("*")
SelectEntries ==
    \E uid \in Users :
        /\ lastOp' = Op("select", "symptom_entries", uid,
                        {r \in symptom_entries : EntrySelectPolicy(uid, r, profiles)})
        /\ UNCHANGED <<profiles, svcVars, pageVars, dbVars, dashVars>>

\* supabase.from("risk_assessments").select("*")
SelectAssessments ==
    \E uid \in Users :
        /\ lastOp' = Op("select", "risk_assessments", uid,
                        {r \in risk_assessments : AssessmentSelectPolicy(uid, r, profiles)})
        /\ UNCHANGED <<profiles, svcVars, pageVars, dbVars, dashVars>>

\* supabase.from("symptom_entries").insert({user_id, symptoms})
ApiInsertEntry ==
    \E uid \in Users, owner \in Users, symptoms \in DbSymptoms :
        LET row == NewSymptomEntry(nextId, owner, symptoms, "")
            ok  == EntryInsertPolicy(uid, row)
        IN  /\ nextId <= MaxIds
            /\ Cardinality(symptom_entries) < MaxRows
            /\ symptom_entries' = IF ok THEN symptom_entries \cup {row} ELSE symptom_entries
            /\ nextId' = IF ok THEN nextId + 1 ELSE nextId
            /\ lastOp' = Op("insert", "symptom_entries", uid, IF ok THEN {row} ELSE {})
            /\ UNCHANGED <<risk_assessments, profiles, svcVars, pageVars, dashVars>>

\* supabase.from("symptom_entries").update({id, user_id, symptoms}).eq("id", id)
ApiUpdateEntry ==
    \E uid \in Users, old \in symptom_entries, owner \in Users,
       symptoms \in DbSymptoms, rekey \in BOOLEAN :
        LET row == [old EXCEPT !.id = IF rekey THEN nextId ELSE old.id,
                               !.user_id = owner, !.symptoms = symptoms]
            ok  == /\ EntryUpdatePolicy(uid, old)
                   /\ EntryUpdatePolicy(uid, row)
                   /\ rekey => ~EntryIdReferenced(old.id, risk_assessments)
        IN  /\ rekey => nextId <= MaxIds
            /\ symptom_entries' =
                   IF ok THEN (symptom_entries \ {old}) \cup {row} ELSE symptom_entries
            /\ nextId' = IF ok /\ rekey THEN nextId + 1 ELSE nextId
            /\ lastOp' = Op("update", "symptom_entries", uid, IF ok THEN {row} ELSE {})
            /\ UNCHANGED <<risk_assessments, profiles, svcVars, pageVars, dashVars>>

\* supabase.from("symptom_entries").delete().eq("id", id)
ApiDeleteEntry ==
    \E uid \in Users, old \in symptom_entries :
        LET deleted == {r \in symptom_entries : r.id = old.id /\ EntryDeletePolicy(uid, r)}
        IN  /\ symptom_entries' = symptom_entries \ deleted
            /\ risk_assessments' = CascadeDelete(risk_assessments, deleted)
            /\ lastOp' = [Op("delete", "symptom_entries", uid, deleted) EXCEPT
                              !.cascaded = risk_assessments \ risk_assessments']
            /\ UNCHANGED <<nextId, profiles, svcVars, pageVars, dashVars>>

\* supabase.from("risk_assessments").insert({symptom_entry_id, user_id,
\* predictions, risk_level})
ApiInsertAssessment ==
    \E uid \in Users, owner \in Users, entryId \in 1..nextId, risk \in DbRiskInputs :
        LET row == [id |-> nextId, symptom_entry_id |-> entryId, user_id |-> owner,
                    predictions |-> [riskLevel |-> risk], risk_level |-> risk]
            ok  == /\ AssessmentInsertPolicy(uid, row)
                   /\ AssessmentConstraints(row, symptom_entries)
        IN  /\ nextId <= MaxIds
            /\ Cardinality(risk_assessments) < MaxRows
            /\ risk_assessments' =
                   IF ok THEN risk_assessments \cup {row} ELSE risk_assessments
            /\ nextId' = IF ok THEN nextId + 1 ELSE nextId
            /\ lastOp' = Op("insert", "risk_assessments", uid, IF ok THEN {row} ELSE {})
            /\ UNCHANGED <<symptom_entries, profiles, svcVars, pageVars, dashVars>>

\* supabase.from("risk_assessments").update({risk_level}).eq("id", id)
ApiUpdateAssessment ==
    \E uid \in Users, old \in risk_assessments, risk \in {"high"} :
        LET hit == {r \in risk_assessments : r.id = old.id /\ AssessmentUpdatePolicy(uid, r)}
        IN  /\ risk_assessments' =
                   (risk_assessments \ hit) \cup {[r EXCEPT !.risk_level = risk] : r \in hit}
            /\ lastOp' = Op("update", "risk_assessments", uid, hit)
            /\ UNCHANGED <<symptom_entries, nextId, profiles, svcVars, pageVars, dashVars>>

\* supabase.from("risk_assessments").delete().eq("id", id)
ApiDeleteAssessment ==
    \E uid \in Users, old \in risk_assessments :
        LET hit == {r \in risk_assessments : r.id = old.id /\ AssessmentDeletePolicy(uid, r)}
        IN  /\ risk_assessments' = risk_assessments \ hit
            /\ lastOp' = Op("delete", "risk_assessments", uid, hit)
            /\ UNCHANGED <<symptom_entries, nextId, profiles, svcVars, pageVars, dashVars>>

\* supabase.from("profiles").update({role}).eq("id", id)
ApiUpdateProfile ==
    \E uid \in Users, id \in Users, role \in DbRoleInputs :
        LET ok == ProfileUpdatePolicy(uid, id) /\ ProfileConstraints(role)
        IN  /\ profiles' = IF ok THEN [profiles EXCEPT ![id] = role] ELSE profiles
            /\ lastOp' = Op("update", "profiles", uid,
                            IF ok THEN {[id |-> id, role |-> role]} ELSE {})
            /\ UNCHANGED <<svcVars, pageVars, dbVars, dashVars>>

NotExported == <<"not exported">>

-----------------------------------------------------------------------------
(* Dashboard page *)

\* text is a sequence of pieces; the characters a CSV reader acts on are
\* pieces of their own
Comma   == ","
Newline == "\n"
Quote   == "\""
Space   == " "

\* a note of two lines: a" and "b
QuotedLinesNote == "a\"\n\"b"

\* the pieces of a string
Chars(str) ==
    CASE str = "" -> <<>>
      [] str = QuotedLinesNote -> <<"a", Quote, Newline, Quote, "b">>
      [] OTHER -> <<str>>

\* Array.prototype.join on pieces of text
RECURSIVE Join(_, _)
Join(parts, sep) ==
    IF parts = <<>> THEN <<>>
    ELSE IF Len(parts) = 1 THEN parts[1]
    ELSE parts[1] \o sep \o Join(Tail(parts), sep)

\* created_at DEFAULT NOW(): rows are stamped in the order their ids are handed out
CreatedAt(row) == row.id

\* new Date(created_at).toLocaleDateString()
DateTexts == <<"1/1/2026", "1/2/2026", "1/3/2026", "1/4/2026", "1/5/2026", "1/6/2026">>
LocaleDateString(t) == IF t \in DOMAIN DateTexts THEN DateTexts[t] ELSE "1/7/2026"

\* .limit(10)
PageLimit == 10

\* .order("created_at", { ascending: false }).limit(10)
RECURSIVE NewestFirst(_)
NewestFirst(rows) ==
    IF rows = {} THEN <<>>
    ELSE LET newest == CHOOSE r \in rows : \A q \in rows : CreatedAt(q) <= CreatedAt(r)
         IN  <<newest>> \o NewestFirst(rows \ {newest})

Limit(rows, n) == SubSeq(rows, 1, Min({n, Len(rows)}))

\* entry => ({ id, symptoms, notes, created_at })
TypedEntry(entry) ==
    [id |-> entry.id, symptoms |-> entry.symptoms, notes |-> entry.notes,
     created_at |-> CreatedAt(entry)]

\* fetchDashboardData, signed in: both reads run under the row-level policies
\* of the session's user; an error of either leaves what was loaded
fetchDashboardData ==
    \E user \in Users, failed \in BOOLEAN :
        LET symptomsResult ==
                Limit(NewestFirst({r \in symptom_entries :
                                      EntrySelectPolicy(user, r, profiles)}), PageLimit)
            assessmentsResult ==
                Limit(NewestFirst({r \in risk_assessments :
                                      AssessmentSelectPolicy(user, r, profiles)}), PageLimit)
        IN  /\ symptomEntries' =
                   IF failed THEN symptomEntries
                   ELSE [i \in 1..Len(symptomsResult) |-> TypedEntry(symptomsResult[i])]
            /\ riskAssessments' = IF failed THEN riskAssessments ELSE assessmentsResult
            /\ UNCHANGED <<csvContent, svcVars, pageVars, dbVars, aclVars>>

\* riskAssessments.find(a => a.symptom_entry_id === entry.id)?.risk_level || "N/A"
RiskLevelOrNA(entry, assessments) ==
    LET found == {i \in 1..Len(assessments) : assessments[i].symptom_entry_id = entry.id}
    IN  IF found = {} \/ assessments[Min(found)].risk_level = ""
        THEN "N/A"
        ELSE assessments[Min(found)].risk_level

\* `"${entry.symptoms.join(', ')}"`
SymptomsField(entry) ==
    <<Quote>>
    \o Join([i \in 1..Len(entry.symptoms) |-> Chars(entry.symptoms[i])], <<Comma, Space>>)
    \o <<Quote>>

\* `"${entry.notes || ''}"`
NotesField(entry) ==
    <<Quote>> \o (IF entry.notes = "NULL" THEN <<>> ELSE Chars(entry.notes)) \o <<Quote>>

CsvHeader == Join(<<<<"Date">>, <<"Symptoms">>, <<"Risk Level">>, <<"Notes">>>>, <<Comma>>)

CsvRow(entry, assessments) ==
    Join(<<<<LocaleDateString(entry.created_at)>>,
           SymptomsField(entry),
           <<RiskLevelOrNA(entry, assessments)>>,
           NotesField(entry)>>, <<Comma>>)

\* exportData
exportData ==
    /\ csvContent' =
           Join(<<CsvHeader>>
                \o [i \in 1..Len(symptomEntries) |->
                       CsvRow(symptomEntries[i], riskAssessments)],
                <<Newline>>)
    /\ UNCHANGED <<symptomEntries, riskAssessments, svcVars, pageVars, dbVars, aclVars>>

-----------------------------------------------------------------------------
(* Specifications *)

FlowReplies ==
    {[kind |-> "throw"],
     [kind |-> "http", status |-> 429, envelope |-> "text", content |-> <<>>],
     TextReply(<<Prose>>),
     TextReply(JSONStringify(UpstreamObject("low", <<60>>))),
     TextReply(JSONStringify(UpstreamObject("critical", <<60>>))),
     TextReply(JSONStringify(UpstreamObject("absent", <<60>>)))}

Init ==
    /\ apiKeySet \in BOOLEAN
    /\ httpRequest = NoRequest
    /\ svcPc = "idle"
    /\ upstreamCalls = 0
    /\ upstreamReply = NoReply
    /\ httpResponse = NoResponse
    /\ selectedSymptoms = <<>>
    /\ notes = ""
    /\ loading = FALSE
    /\ analysisResult = Null
    /\ run = IdleRun
    /\ symptom_entries = {}
    /\ risk_assessments = {}
    /\ nextId = 1
    /\ profiles = SignedUpProfiles
    /\ lastOp = NoOp
    /\ symptomEntries = <<>>
    /\ riskAssessments = <<>>
    /\ csvContent = NotExported

\* the page, the database and the edge function serving the page
Next ==
    \/ toggleSymptom
    \/ setNotes
    \/ resetForm
    \/ Submit
    \/ GetUserReturn
    \/ InsertEntryReturn
    \/ SvcReceive
    \/ SvcUpstreamReturn(FlowReplies)
    \/ InvokeReturn
    \/ InsertAssessmentReturn

Spec == Init /\ [][Next]_vars

\* the edge function alone, serving any client
NextSvc ==
    \/ ClientSend
    \/ SvcReceive
    \/ SvcUpstreamReturn(AllReplies)

SpecSvc == Init /\ [][NextSvc]_vars

\* clients of the database acting on it directly, under row-level security
NextDb ==
    \/ SelectEntries
    \/ SelectAssessments
    \/ ApiInsertEntry
    \/ ApiUpdateEntry
    \/ ApiDeleteEntry
    \/ ApiInsertAssessment
    \/ ApiUpdateAssessment
    \/ ApiDeleteAssessment
    \/ ApiUpdateProfile

SpecDb == Init /\ [][NextDb]_vars

\* entries users have logged: owner, selection and notes as typed
DashEntryInputs ==
    {[user_id |-> "u1", symptoms |-> <<"Fever">>, notes |-> ""],
     [user_id |-> "u1", symptoms |-> <<"Fever", "Cough">>, notes |-> QuotedLinesNote],
     [user_id |-> "u2", symptoms |-> <<"Cough">>, notes |-> "worse at night"]}

DashRiskInputs == {"low", "high"}

\* the tables after n entries were logged and then m assessments stored, each by
\* the owner of the entry it is for
LoggedEntries(n, in) ==
    {NewSymptomEntry(i, in[i].user_id, in[i].symptoms, in[i].notes) : i \in 1..n}

StoredAssessments(n, m, entries, of) ==
    {NewRiskAssessment(n + j,
                       CHOOSE e \in entries : e.id = of[j].entry,
                       (CHOOSE e \in entries : e.id = of[j].entry).user_id,
                       [riskLevel |-> of[j].risk]) : j \in 1..m}

\* the Dashboard opened on a database that already holds rows
InitDash ==
    /\ apiKeySet = TRUE
    /\ httpRequest = NoRequest
    /\ svcPc = "idle"
    /\ upstreamCalls = 0
    /\ upstreamReply = NoReply
    /\ httpResponse = NoResponse
    /\ selectedSymptoms = <<>>
    /\ notes = ""
    /\ loading = FALSE
    /\ analysisResult = Null
    /\ run = IdleRun
    /\ \E n \in 0..MaxRows, m \in 0..MaxRows :
         \E in \in [1..n -> DashEntryInputs],
            of \in [1..m -> [entry : 1..n, risk : DashRiskInputs]] :
             /\ symptom_entries = LoggedEntries(n, in)
             /\ risk_assessments =
                    StoredAssessments(n, m, LoggedEntries(n, in), of)
             /\ nextId = n + m + 1
    /\ profiles \in [Users -> Roles]
    /\ lastOp = NoOp
    /\ symptomEntries = <<>>
    /\ riskAssessments = <<>>
    /\ csvContent = NotExported

NextDash ==
    \/ fetchDashboardData
    \/ exportData

SpecDash == InitDash /\ [][NextDash]_vars

-----------------------------------------------------------------------------
(* Properties of handleSubmit, under Spec *)

\* the symptom_entries rows the current run inserted
RunEntries == {row \in symptom_entries : row.id \in run.createdEntries}

\* the risk_assessments rows the current run inserted
RunAssessments == {row \in risk_assessments : row.id \in run.createdAssessments}

\* the run got past the symptom_entries insert without an error
EntryInsertSucceeded ==
    /\ run.symptomError = NoError
    /\ run.pc \in {"invoke", "insertAssessment"} \/ run.result = "logged"

HasErrorToast == \E i \in 1..Len(run.toasts) : run.toasts[i].level = "error"

\* C1: a run of handleSubmit whose symptom_entries insert succeeds creates
\* exactly one symptom_entries row, carrying the symptoms selected at submission
\* in their order and the caller's id; analyze-symptoms is invoked (and served)
\* only once that row exists, and the row is still there in every later state
\* of the run, whether the analysis succeeds or fails; no run inserts twice.
C1_OneEntryBeforeAnalysis ==
    /\ Cardinality(run.createdEntries) <= 1
    /\ Cardinality(RunEntries) = Cardinality(run.createdEntries)
    /\ Cardinality(symptom_entries) <= MaxEntries
    /\ \A r1, r2 \in symptom_entries : r1.id = r2.id => r1 = r2
    /\ EntryInsertSucceeded =>
         /\ Cardinality(RunEntries) = 1
         /\ \A row \in RunEntries :
              /\ row.symptoms = run.symptoms
              /\ row.user_id = run.user
              /\ row = run.symptomEntry
    /\ (run.invoked > 0 \/ svcPc # "idle") =>
         /\ run.invoked = 1
         /\ Cardinality(RunEntries) = 1

\* C1 witness: Fever then Cough submitted, the analysis failed, the row is kept
C1_Witness ==
    /\ run.pc = "idle"
    /\ run.result = "logged"
    /\ run.analysisError
    /\ run.symptoms = <<"Fever", "Cough">>
    /\ \E row \in RunEntries : row.symptoms = <<"Fever", "Cough">> /\ row.user_id = run.user

\* C2: when the symptom_entries insert returns an error the run stops: no row
\* is inserted, analyze-symptoms is not invoked, no risk_assessments row is
\* written, no analysis result is set, and the one toast is the error toast
\* with the error's message (or the default text).
C2_EntryErrorAborts ==
    run.symptomError # NoError =>
        /\ run.pc = "idle"
        /\ ~loading
        /\ run.invoked = 0
        /\ svcPc = "idle"
        /\ httpRequest = NoRequest
        /\ run.createdEntries = {}
        /\ run.createdAssessments = {}
        /\ run.analysis = Null
        /\ analysisResult = Null
        /\ run.toasts = <<Toast("error", IF run.symptomError = ""
                                         THEN "Failed to log symptoms"
                                         ELSE run.symptomError)>>

\* C2 witness: the insert failed with an error that has no message
C2_Witness ==
    /\ run.symptomError = ""
    /\ run.result = "failed"
    /\ run.toasts = <<Toast("error", "Failed to log symptoms")>>
    /\ symptom_entries = {}

\* C3: nothing is inserted or invoked unless the submitted selection is
\* non-empty and a user is authenticated; an empty selection ends the run with
\* the validation toast alone, and a missing user ends it with navigate("/auth")
\* before any insert or invocation.
C3_GuardsBeforePersistence ==
    /\ (\/ run.pc \in {"insertEntry", "invoke", "insertAssessment"}
        \/ run.createdEntries # {}
        \/ run.invoked > 0
        \/ run.createdAssessments # {}) =>
           /\ Len(run.symptoms) > 0
           /\ run.user \in Users
    /\ \A row \in symptom_entries : Len(row.symptoms) > 0 /\ row.user_id \in Users
    /\ \A row \in risk_assessments : row.user_id \in Users
    /\ (run.pc = "idle" /\ run.symptoms = <<>> /\ run.result # "none") =>
           /\ run.result = "validation"
           /\ run.toasts = <<Toast("error", "Please select at least one symptom")>>
    /\ (run.pc = "idle" /\ run.user = NoUser /\ run.symptoms # <<>>) =>
           /\ run.navigated = "/auth"
           /\ run.result = "no user"
    /\ (run.result \in {"validation", "no user"} \/ run.navigated = "/auth") =>
           /\ run.createdEntries = {}
           /\ run.invoked = 0
           /\ run.createdAssessments = {}
           /\ run.user = NoUser

\* C3 witness: a non-empty selection submitted with no user signed in
C3_Witness ==
    /\ run.result = "no user"
    /\ run.navigated = "/auth"
    /\ Len(run.symptoms) > 0
    /\ symptom_entries = {}

\* C4: a run writes a risk_assessments row only after analyze-symptoms answered
\* with a 2xx status and a result, writes at most one, and the row references
\* the symptom entry the same run created; when the analysis call fails no
\* risk_assessments row is written for that entry.
C4_AssessmentAfterAnalysis ==
    /\ Cardinality(run.createdAssessments) <= 1
    /\ Cardinality(RunAssessments) = Cardinality(run.createdAssessments)
    /\ \A a \in RunAssessments :
         /\ run.invokeStatus \in 200..299
         /\ ~run.analysisError
         /\ run.analysis # Null
         /\ a.predictions = run.analysis
         /\ a.symptom_entry_id = run.symptomEntry.id
         /\ a.symptom_entry_id \in run.createdEntries
         /\ a.user_id = run.user
    /\ run.pc \in {"getUser", "insertEntry", "invoke", "insertAssessment"} =>
         run.createdAssessments = {}
    /\ (run.analysisError \/ (run.result = "logged" /\ run.invokeStatus \notin 200..299)) =>
         /\ run.createdAssessments = {}
         /\ \A a \in risk_assessments : a.symptom_entry_id \notin run.createdEntries

\* C4 witness: the run ended with one assessment row linked to its entry
C4_Witness ==
    /\ run.pc = "idle"
    /\ run.invokeStatus = 200
    /\ \E a \in RunAssessments, e \in RunEntries :
         a.symptom_entry_id = e.id /\ a.risk_level = "low"

\* C5: when the analysis succeeded and the risk_assessments insert fails, the
\* step that receives the failure logs it, raises no error toast, sets the
\* analysis result for display and ends the run with the success toast.
C5_AssessmentErrorOnlyLogged ==
    [][(run.pc = "insertAssessment" /\ run'.assessmentError # NoError) =>
          /\ run'.pc = "idle"
          /\ run'.result = "logged"
          /\ ~loading'
          /\ analysisResult' = run.analysis
          /\ analysisResult' # Null
          /\ run'.logs = Append(run.logs, "Assessment error:")
          /\ run'.toasts = Append(run.toasts, Toast("success", "Symptoms logged successfully!"))
          /\ \A i \in 1..Len(run'.toasts) : run'.toasts[i].level # "error"
          /\ risk_assessments' = risk_assessments]_vars

\* C5 witness: the insert was refused (risk level outside the CHECK), the
\* result is displayed and the run ended as a success
C5_Witness ==
    /\ run.pc = "idle"
    /\ run.assessmentError = "new row violates a constraint"
    /\ run.result = "logged"
    /\ analysisResult = run.analysis
    /\ analysisResult # Null
    /\ ~HasErrorToast

-----------------------------------------------------------------------------
(* Properties of the analyze-symptoms function, under SpecSvc *)

\* the function answered a POST after the gateway replied with an ok status
\* and a reply text
AnsweredText ==
    /\ svcPc = "responded"
    /\ httpRequest.method = "POST"
    /\ upstreamReply.kind = "http"
    /\ upstreamReply.status \in 200..299
    /\ upstreamReply.envelope = "text"

\* the assessment shape of the contract
ExpectedShape(o) ==
    /\ "riskLevel" \in DOMAIN o
    /\ o.riskLevel \in {"low", "medium", "high"}
    /\ "conditions" \in DOMAIN o
    /\ Len(o.conditions) <= 3
    /\ \A n \in 1..Len(o.conditions) :
         /\ "probability" \in DOMAIN o.conditions[n]
         /\ o.conditions[n].probability \in 0..100

\* the first balanced {...} span of s: from the first "{" to the "}" closing it
SpanDepth(s, from, j) ==
    Cardinality({k \in from..j : s[k] = LBrace}) - Cardinality({k \in from..j : s[k] = RBrace})

HasBalancedSpan(s) ==
    \E i \in 1..Len(s) :
        /\ s[i] = LBrace
        /\ \E j \in i..Len(s) : SpanDepth(s, Min({k \in 1..Len(s) : s[k] = LBrace}), j) = 0

FirstBalancedSpan(s) ==
    LET from == Min({k \in 1..Len(s) : s[k] = LBrace})
    IN  SubSeq(s, from, Min({j \in from..Len(s) : SpanDepth(s, from, j) = 0}))

\* C6: whenever the function answers a request with a non-empty symptom list
\* with status 200, the returned object has riskLevel in {low, medium, high},
\* at most 3 conditions, and every probability an integer in 0..100.
C6_SuccessHasContractShape ==
    (/\ svcPc = "responded"
     /\ httpRequest.method = "POST"
     /\ httpResponse.status = 200
     /\ IsJSONText(httpRequest.body)
     /\ "symptoms" \in DOMAIN JSONParse(httpRequest.body)
     /\ Len(JSONParse(httpRequest.body).symptoms) > 0) =>
        ExpectedShape(JSONParse(httpResponse.body))

\* C7: when the reply's first balanced {...} span is a JSON object of the
\* expected shape, the response is 200 with that object as its body, whatever
\* prose or brace-delimited text surrounds it.
C7_FirstBalancedSpanReturned ==
    (/\ AnsweredText
     /\ HasBalancedSpan(upstreamReply.content)
     /\ IsJSONText(FirstBalancedSpan(upstreamReply.content))
     /\ ExpectedShape(JSONParse(FirstBalancedSpan(upstreamReply.content)))) =>
        /\ httpResponse.status = 200
        /\ JSONParse(httpResponse.body) = JSONParse(FirstBalancedSpan(upstreamReply.content))

\* C8: when the gateway call succeeds and the reply text has no brace span, or
\* the span from its first "{" to its last "}" is not a JSON object, the
\* response is 200 with the fixed fallback: one condition at probability 60,
\* riskLevel "medium", three recommendations, the standard disclaimer.
C8_FallbackOnUnparseableReply ==
    (/\ AnsweredText
     /\ \/ ~\E i, j \in 1..Len(upstreamReply.content) :
               /\ i < j
               /\ upstreamReply.content[i] = LBrace
               /\ upstreamReply.content[j] = RBrace
        \/ ~IsJSONText(RegexMatch(upstreamReply.content))) =>
        /\ httpResponse.status = 200
        /\ IsJSONText(httpResponse.body)
        /\ LET o == JSONParse(httpResponse.body)
           IN  /\ DOMAIN o = {"conditions", "riskLevel", "recommendations", "disclaimer"}
               /\ o.riskLevel = "medium"
               /\ Len(o.conditions) = 1
               /\ o.conditions[1].probability = 60
               /\ o.conditions[1].name = "Multiple Symptoms"
               /\ o.recommendations = <<"Consult a healthcare professional",
                                        "Monitor your symptoms",
                                        "Stay hydrated and rest">>
               /\ o.disclaimer = "This is not a medical diagnosis. Please consult a healthcare professional for proper evaluation."

\* C8 witness: the reply has a brace span that is not JSON, and the fallback
\* came back with status 200
C8_Witness ==
    /\ AnsweredText
    /\ upstreamReply.content = <<LBrace, Prose, RBrace>>
    /\ httpResponse.status = 200
    /\ JSONParse(httpResponse.body).riskLevel = "medium"
    /\ Len(JSONParse(httpResponse.body).recommendations) = 3

\* C9: a non-ok gateway status never yields an assessment: 429 is answered 429
\* with the rate-limit message, 402 is answered 402 with the credits-exhausted
\* message, any other status is answered 500 with a JSON error body.
C9_UpstreamStatusMapping ==
    (/\ svcPc = "responded"
     /\ upstreamReply.kind = "http"
     /\ upstreamReply.status \notin 200..299) =>
        /\ IsJSONText(httpResponse.body)
        /\ DOMAIN JSONParse(httpResponse.body) = {"error"}
        /\ upstreamReply.status = 429 =>
             httpResponse = Response(429, <<LBrace,
                 Member("error", "Rate limit exceeded. Please try again later."), RBrace>>)
        /\ upstreamReply.status = 402 =>
             httpResponse = Response(402, <<LBrace,
                 Member("error", "AI credits exhausted. Please add credits to continue."), RBrace>>)
        /\ upstreamReply.status \notin {429, 402} => httpResponse.status = 500

\* C9 witness: the gateway answered 429 and so did the function
C9_Witness ==
    /\ svcPc = "responded"
    /\ upstreamReply.kind = "http"
    /\ upstreamReply.status = 429
    /\ httpResponse.status = 429

-----------------------------------------------------------------------------
(* Properties of the row-level policies and the references, under SpecDb *)

\* the last request was a read of the table by uid
ReadOf(table, uid) ==
    lastOp.op = "select" /\ lastOp.table = table /\ lastOp.uid = uid

-----------------------------------------------------------------------------
(* Properties of exportData, under SpecDash *)

\* position i of text s is inside a quoted field
InQuotes(s, i) == Count(s, Quote, i - 1) % 2 = 1

\* s cut at every sep that stands outside quotes
Split(s, sep) ==
    LET cuts  == SortedSeq({i \in 1..Len(s) : s[i] = sep /\ ~InQuotes(s, i)})
        n     == Len(cuts) + 1
        from(k) == IF k = 1 THEN 1 ELSE cuts[k - 1] + 1
        to(k)   == IF k = n THEN Len(s) ELSE cuts[k] - 1
    IN  [k \in 1..n |-> SubSeq(s, from(k), to(k))]

\* the rows a CSV reader finds in a file, and the columns it finds in a row
CsvRecords(text) == Split(text, Newline)
CsvFields(record) == Split(record, Comma)

\* the file has the header and then one row per entry, in the entries' order,
\* with the risk level of a matching assessment, or "N/A", in the third column
IsExportOf(text, entries, assessments) ==
    LET records == CsvRecords(text)
    IN  /\ Len(records) = 1 + Len(entries)
        /\ records[1] = <<"Date", Comma, "Symptoms", Comma, "Risk Level", Comma, "Notes">>
        /\ \A i \in 1..Len(entries) :
             LET fields  == CsvFields(records[i + 1])
                 matches == {j \in 1..Len(assessments) :
                                assessments[j].symptom_entry_id = entries[i].id}
             IN  /\ Len(fields) >= 3
                 /\ fields[1] = <<LocaleDateString(entries[i].created_at)>>
                 /\ IF matches = {} THEN fields[3] = <<"N/A">>
                    ELSE \E j \in matches : fields[3] = <<assessments[j].risk_level>>

\* C12: every file exportData writes has the header Date,Symptoms,Risk Level,Notes
\* followed by exactly one row per loaded symptom entry, in the loaded order, whose
\* risk-level column is the risk_level of a loaded assessment of that entry, or
\* "N/A" when no loaded assessment is of that entry.
C12_ExportOneRowPerEntry ==
    [][csvContent' # csvContent =>
           IsExportOf(csvContent', symptomEntries, riskAssessments)]_vars

\* every risk_assessments row references a symptom_entries row of the table
ReferencesHold(entries, assessments) ==
    \A a \in assessments : \E e \in entries : e.id = a.symptom_entry_id

\* C13: after every step of entry inserts, updates and deletions and of
\* assessment inserts, updates and deletions by users, every risk_assessments row
\* references a symptom_entries row that exists, the assessments of a deleted
\* entry are gone with it, and an assessment whose entry remains is still there,
\* unmodified.
C13_AssessmentsFollowEntries ==
    [][/\ ReferencesHold(symptom_entries', risk_assessments')
       /\ \A a \in risk_assessments :
            IF \E e \in symptom_entries' : e.id = a.symptom_entry_id
            THEN a \in risk_assessments'
            ELSE \A b \in risk_assessments' : b.id # a.id
       /\ \A b \in risk_assessments', a \in risk_assessments : b.id = a.id => b = a]_vars

\* an owner deleted an entry that had an assessment, and the assessment went
\* with it
C13_Witness ==
    /\ lastOp.op = "delete"
    /\ lastOp.table = "symptom_entries"
    /\ lastOp.count = 1
    /\ lastOp.cascaded # {}
    /\ \A a \in lastOp.cascaded : a \notin risk_assessments

C15_AssessmentOwnerIsEntryOwner ==
    \A a \in risk_assessments, e \in symptom_entries :
        e.id = a.symptom_entry_id => a.user_id = e.user_id

====
